---- MODULE Spec2Model ----
(***************************************************************************)
(* Model of src/ve.py: StreamBrowserAutomation.                            *)
(*                                                                         *)
(* The script is one thread of control.  Its position is a call stack of   *)
(* frames, one per active Python function; every frame records, in order,  *)
(* the calls it has issued itself (driver calls and calls of helpers).     *)
(* Every call on a browser driver is answered by the environment: it       *)
(* returns, or it raises an Exception; an element check returns present or *)
(* absent.  Text is a sequence of code points wherever the code transforms *)
(* it (lower(), b64decode) and a string where it is only passed along.     *)
(***************************************************************************)
EXTENDS Integers, Sequences, FiniteSets, TLC

VARIABLES
    stack,                  \* call stack, innermost frame last
    response,               \* what the geolocation endpoint answers to the GET
    requests_issued,        \* number of HTTP requests issued so far
    geolocation,            \* self.geolocation
    target_url,             \* self.target_url
    random_sleep_duration,  \* self.random_sleep_duration
    open,                   \* browser sessions currently open
    created,                \* number of sessions created by get_new_driver
    iter,                   \* number of loop iterations started
    log,                    \* messages handed to the logger
    completed,              \* the invocations the last return or raise ended, innermost first
    status                  \* "running", "returned" or "raised" (the process)

vars == <<stack, response, requests_issued, geolocation, target_url,
          random_sleep_duration, open, created, iter, log, completed, status>>

----------------------------------------------------------------------------
(* Bounds of the model *)

MaxIter == 2            \* loop iterations explored
MaxCcLen == 2           \* longest countryCode text in the wide response set

----------------------------------------------------------------------------
(* Configuration constants, src/ve.py:35-48 *)

CLICK_TIMEOUT == 4
SLEEP_SHORT == 2
SLEEP_MEDIUM == 10
SLEEP_LONG_MIN == 450
SLEEP_LONG_MAX == 800

\* TARGET_CHANNEL = "YnJ1dGFsbGVz", as code points
TARGET_CHANNEL == <<89, 110, 74, 49, 100, 71, 70, 115, 98, 71, 86, 122>>

\* TARGET_URL_TEMPLATE = "https://www.twitch.tv/{}": the text before the {}
TARGET_URL_TEMPLATE == "https://www.twitch.tv/"

SELECTORS == [accept_button  |-> "button:contains(\"Accept\")",
              start_watching |-> "button:contains(\"Start Watching\")",
              live_stream    |-> "#live-channel-stream-information"]

----------------------------------------------------------------------------
(* Values that stand for "not set" *)

NoDriver == <<>>                    \* no driver (frames of main, __init__, run)
Primary == <<"primary">>            \* the session opened by "with SB(...)"
Secondary(n) == <<"secondary", n>>  \* the n-th session made by get_new_driver
Unset == <<>>           \* an attribute before __init__ assigns it
NoNav == <<>>           \* the navigation arguments of a call that is no navigation

----------------------------------------------------------------------------
(* Text *)

\* str.lower() on ASCII text: A-Z become a-z, everything else is kept
LowerChar(c) == IF c \in 65..90 THEN c + 32 ELSE c

\* the text as it is: the call of lower() left out
LowerLeftOut(s) == s

Lower(s) == [i \in 1..Len(s) |-> LowerChar(s[i])]

\* value of one character of the base64 alphabet A-Z a-z 0-9 + /
B64Value(c) ==
    IF c \in 65..90 THEN c - 65
    ELSE IF c \in 97..122 THEN c - 97 + 26
    ELSE IF c \in 48..57 THEN c - 48 + 52
    ELSE IF c = 43 THEN 62
    ELSE 63

\* base64.b64decode of unpadded text whose length is a multiple of 4:
\* every 4 characters (24 bits) give 3 bytes
B64Decode(s) ==
    LET Group(g) == B64Value(s[4 * g + 1]) * 262144 + B64Value(s[4 * g + 2]) * 4096
                    + B64Value(s[4 * g + 3]) * 64 + B64Value(s[4 * g + 4])
        Byte(k) == LET g == (k - 1) \div 3
                       j == (k - 1) % 3
                   IN  (Group(g) \div (IF j = 0 THEN 65536 ELSE IF j = 1 THEN 256 ELSE 1)) % 256
    IN  [k \in 1..(3 * (Len(s) \div 4)) |-> Byte(k)]

\* _build_target_url: decode the channel name and put it into the template.
\* bytes.decode("utf-8") of bytes below 128 gives the same code points.
BuildTargetUrl == <<TARGET_URL_TEMPLATE, B64Decode(TARGET_CHANNEL)>>

----------------------------------------------------------------------------
(* Geolocation: the HTTP response and _fetch_geolocation *)

\* a JSON object with the four fields the code reads
GeoData(lat, lon, tz, cc) ==
    [lat |-> lat, lon |-> lon, timezone |-> tz, countryCode |-> cc]

\* the same object without field k
Without(data, k) == [f \in (DOMAIN data) \ {k} |-> data[f]]

GeoFields == {"lat", "lon", "timezone", "countryCode"}

OkResponse(data) == [kind |-> "http", code |-> 200, data |-> data]

NetworkError == [kind |-> "network_error", code |-> 0, data |-> <<>>]

HttpError(code) == [kind |-> "http", code |-> code, data |-> <<>>]

\* the example of the specification and a second, different place
ExampleData == GeoData(10, 20, "UTC", <<85, 83>>)

OtherData == GeoData(-33, 151, "Australia/Sydney", <<65, 85>>)

\* the answers the main specification explores
Responses ==
    {NetworkError, HttpError(500), OkResponse(ExampleData), OkResponse(OtherData)}
    \cup {OkResponse(Without(ExampleData, k)) : k \in GeoFields}

\* country codes of the wide set: upper case, lower case and a digit, mixed
CcChars == {85, 83, 117, 48}

CcTexts == UNION {[1..n -> CcChars] : n \in 1..MaxCcLen}

\* the answers the specification of _fetch_geolocation alone explores
WideResponses ==
    {OkResponse(GeoData(lat, lon, tz, cc)) :
        lat \in {-33, 10}, lon \in {20, 151}, tz \in {"UTC", "Europe/Oslo"}, cc \in CcTexts}
    \cup {OkResponse(Without(GeoData(10, 20, "UTC", cc), k)) : k \in GeoFields, cc \in CcTexts}
    \cup {NetworkError, HttpError(404), HttpError(500)}

\* GeoLocation(latitude, longitude, timezone, country_code), src/ve.py:22-28
GeoLocation(latitude, longitude, timezone, country_code) ==
    [latitude |-> latitude, longitude |-> longitude,
     timezone |-> timezone, country_code |-> country_code]

\* _fetch_geolocation with a handler that returns a default record instead of
\* raising again
FetchGeolocationDefault(resp) ==
    IF resp.kind = "network_error" \/ resp.code >= 400
    THEN [raised |-> "", logged |-> TRUE, value |-> GeoLocation(0, 0, "UTC", <<>>)]
    ELSE IF ~(GeoFields \subseteq DOMAIN resp.data)
    THEN [raised |-> "KeyError", logged |-> FALSE, value |-> Unset]
    ELSE [raised |-> "", logged |-> FALSE,
          value |-> GeoLocation(resp.data["lat"], resp.data["lon"],
                                resp.data["timezone"],
                                Lower(resp.data["countryCode"]))]

\* _fetch_geolocation on the answer resp: the exception it ends with, if any
\* (requests.get raises on a network error, raise_for_status on a status of
\* 400 and above, data[k] on a missing key), whether the handler for
\* RequestException logged it, and the record it returns otherwise.
FetchGeolocation(resp) ==
    IF resp.kind = "network_error"
    THEN [raised |-> "RequestException", logged |-> TRUE, value |-> Unset]
    ELSE IF resp.code >= 400
    THEN [raised |-> "RequestException", logged |-> TRUE, value |-> Unset]
    ELSE IF ~(GeoFields \subseteq DOMAIN resp.data)
    THEN [raised |-> "KeyError", logged |-> FALSE, value |-> Unset]
    ELSE [raised |-> "", logged |-> FALSE,
          value |-> GeoLocation(resp.data["lat"], resp.data["lon"],
                                resp.data["timezone"],
                                Lower(resp.data["countryCode"]))]

----------------------------------------------------------------------------
(* Frames and calls *)

Frame(fn, pc, drv) == [fn |-> fn, pc |-> pc, drv |-> drv, loc |-> NoDriver, calls |-> <<>>]

\* one call as its frame records it
Call(op, drv, sel, secs, nav, res) ==
    [op |-> op, drv |-> drv, sel |-> sel, secs |-> secs, nav |-> nav, res |-> res]

HelperCall(fn, drv) == Call(fn, drv, "", 0, NoNav, "called")

Top(stk) == stk[Len(stk)]

SetTop(stk, f) == [stk EXCEPT ![Len(stk)] = f]

Record(f, c) == [f EXCEPT !.calls = Append(@, c)]

MarkLast(f, res) ==
    IF f.calls = <<>> THEN f ELSE [f EXCEPT !.calls[Len(f.calls)].res = res]

At(fn, pc) == stack # <<>> /\ Top(stack).fn = fn /\ Top(stack).pc = pc

\* a finally block that pauses the primary session for random_sleep_duration
FinallyCallsSleep(fn) ==
    IF fn = "_run_secondary_browser"
    THEN <<Call("sleep", Primary, "", random_sleep_duration, NoNav, "ok")>>
    ELSE <<>>

\* the calls the finally block of fn issues when fn is left (lines 155-157: pass)
FinallyCalls(fn) == <<>>

\* a completed invocation: the frame, the calls it issued and how it ended:
\* "normal", "caught" (its handler caught an Exception and it returned) or
\* "raised" (the Exception left it)
Completed(f, outcome) ==
    [fn |-> f.fn, drv |-> f.drv, loc |-> f.loc,
     calls |-> f.calls \o FinallyCalls(f.fn), outcome |-> outcome]

\* the stack after its innermost frame returned normally
Pop(stk) ==
    LET rest == SubSeq(stk, 1, Len(stk) - 1)
    IN  IF rest = <<>> THEN rest ELSE SetTop(rest, MarkLast(Top(rest), "ok"))

\* the except clauses with a raise added to the loop's
HandlersLoopReraises ==
    [_run_secondary_browser   |-> [msg |-> "Secondary browser error", reraise |-> FALSE],
     _execute_automation_loop |-> [msg |-> "Error in automation loop", reraise |-> TRUE],
     run                      |-> [msg |-> "Automation failed", reraise |-> TRUE]]

\* the except clauses: what they log and whether they raise again
Handlers ==
    [_run_secondary_browser   |-> [msg |-> "Secondary browser error", reraise |-> FALSE],
     _execute_automation_loop |-> [msg |-> "Error in automation loop", reraise |-> FALSE],
     run                      |-> [msg |-> "Automation failed", reraise |-> TRUE]]

\* only the loop's handler ends the propagation: the secondary handler missing
CatchesOnlyInLoop(f) == f.fn = "_execute_automation_loop"

\* "except Exception" without a raise: the Exception goes no further
Catches(f) == f.fn \in DOMAIN Handlers /\ ~Handlers[f.fn].reraise

\* the innermost frame whose handler ends the propagation of an Exception; 0 if none
HandlerIdx(stk) ==
    LET S == {i \in 1..Len(stk) : Catches(stk[i])}
    IN  IF S = {} THEN 0 ELSE CHOOSE i \in S : \A j \in S : j <= i

\* An Exception raised by the last call of the innermost frame of stk (already
\* recorded there): the frames above the handler are left, the handler logs,
\* its function returns normally; with no handler the process ends raised.
\* msgs is what was logged before the Exception left the innermost frame.
Throw(stk, msgs) ==
    LET h == HandlerIdx(stk)
        from == IF h = 0 THEN 1 ELSE h
        n == Len(stk)
        Left(i) == IF i < n THEN MarkLast(stk[i], "raise") ELSE stk[i]
    IN  /\ log' = log \cup msgs
                  \cup {Handlers[stk[i].fn].msg : i \in {j \in from..n : stk[j].fn \in DOMAIN Handlers}}
        /\ completed' = [k \in 1..(n - from + 1) |->
                            Completed(Left(n - k + 1),
                                      IF n - k + 1 = h THEN "caught" ELSE "raised")]
        /\ stack' = IF h = 0 THEN <<>> ELSE Pop(SubSeq(stk, 1, h))
        /\ status' = IF h = 0 THEN "raised" ELSE status

\* the innermost frame returns normally
Return(stk) ==
    /\ completed' = <<Completed(Top(stk), "normal")>>
    /\ stack' = Pop(stk)
    /\ UNCHANGED <<log, status>>

\* the innermost frame goes on at pc
Goto(stk, pc) ==
    /\ stack' = SetTop(stk, [Top(stk) EXCEPT !.pc = pc])
    /\ UNCHANGED <<log, status, completed>>

\* the innermost frame calls a helper on drv and goes on at pc after it
Enter(fn, drv, first, pc) ==
    LET f == Record([Top(stack) EXCEPT !.pc = pc], HelperCall(fn, drv))
    IN  /\ stack' = Append(SetTop(stack, f), Frame(fn, first, drv))
        /\ UNCHANGED <<log, status, completed>>

\* the stack with call c recorded by the innermost frame
Issue(c) == SetTop(stack, Record(Top(stack), c))

env == <<response, requests_issued>>

attrs == <<geolocation, target_url, random_sleep_duration>>

sessions == <<open, created>>

----------------------------------------------------------------------------
(* main and __init__ *)

Init ==
    /\ stack = <<Frame("main", "construct", NoDriver)>>
    /\ response \in Responses
    /\ requests_issued = 0
    /\ geolocation = Unset
    /\ target_url = Unset
    /\ random_sleep_duration = 0
    /\ open = {}
    /\ created = 0
    /\ iter = 0
    /\ log = {}
    /\ completed = <<>>
    /\ status = "running"

\* main, line 205: automation = StreamBrowserAutomation()
Main_Construct ==
    /\ At("main", "construct")
    /\ Enter("__init__", NoDriver, "fetch", "run")
    /\ UNCHANGED <<env, attrs, sessions, iter>>

\* __init__, line 52: self.geolocation = self._fetch_geolocation(), which
\* issues one GET (line 71) and logs a RequestException before raising it again
Init_FetchGeolocation ==
    /\ At("__init__", "fetch")
    /\ requests_issued' = requests_issued + 1
    /\ LET r == FetchGeolocation(response)
           c == Call("_fetch_geolocation", NoDriver, "", 0, NoNav,
                     IF r.raised = "" THEN "ok" ELSE "raise")
       IN  IF r.raised # ""
           THEN /\ Throw(Issue(c), IF r.logged THEN {"Failed to fetch geolocation"} ELSE {})
                /\ UNCHANGED geolocation
           ELSE /\ geolocation' = r.value
                /\ Goto(Issue(c), "build")
    /\ UNCHANGED <<response, target_url, random_sleep_duration, sessions, iter>>

\* __init__, line 53: self.target_url = self._build_target_url()
Init_BuildTargetUrl ==
    /\ At("__init__", "build")
    /\ target_url' = BuildTargetUrl
    /\ Goto(Issue(Call("_build_target_url", NoDriver, "", 0, NoNav, "ok")), "randint")
    /\ UNCHANGED <<env, geolocation, random_sleep_duration, sessions, iter>>

\* random.randint(a, b): any integer from a to b, both included
RandInt(a, b) == a..b

\* __init__, lines 54-57: self.random_sleep_duration = random.randint(MIN, MAX)
Init_RandomSleepDuration ==
    /\ At("__init__", "randint")
    /\ \E d \in RandInt(SLEEP_LONG_MIN, SLEEP_LONG_MAX) :
          /\ random_sleep_duration' = d
          /\ Return(Issue(Call("random.randint", NoDriver, "", d, NoNav, "ok")))
    /\ UNCHANGED <<env, geolocation, target_url, sessions, iter>>

\* main, line 206: automation.run()
Main_Run ==
    /\ At("main", "run")
    /\ Enter("run", NoDriver, "enter", "return")
    /\ UNCHANGED <<env, attrs, sessions, iter>>

\* main returns: the process ends normally
Main_Return ==
    /\ At("main", "return")
    /\ completed' = <<Completed(Top(stack), "normal")>>
    /\ stack' = Pop(stack)
    /\ status' = "returned"
    /\ UNCHANGED <<env, attrs, sessions, iter, log>>

----------------------------------------------------------------------------
(* run *)

\* run, lines 166-172: "with SB(...) as primary_driver" opens the primary
\* session and the body calls _execute_automation_loop(primary_driver)
Run_Enter ==
    /\ At("run", "enter")
    /\ \E res \in {"ok", "raise"} :
          LET c == Call("SB.__enter__", Primary, "", 0, NoNav, res)
          IN  IF res = "raise"
              THEN /\ Throw(Issue(c), {})
                   /\ UNCHANGED open
              ELSE /\ open' = open \cup {Primary}
                   /\ stack' = Append(SetTop(stack,
                                   Record(Record([Top(stack) EXCEPT !.pc = "exit"], c),
                                          HelperCall("_execute_automation_loop", Primary))),
                                   Frame("_execute_automation_loop", "initialize", Primary))
                   /\ UNCHANGED <<log, status, completed>>
    /\ UNCHANGED <<env, attrs, created, iter>>

\* run, line 171: the with block is left and the library closes what it owns
Run_Exit ==
    /\ At("run", "exit")
    /\ \E res \in {"ok", "raise"} :
          LET c == Call("SB.__exit__", Primary, "", 0, NoNav, res)
          IN  IF res = "raise"
              THEN /\ Throw(Issue(c), {})
                   /\ UNCHANGED open
              ELSE /\ open' = {}
                   /\ Return(Issue(c))
    /\ UNCHANGED <<env, attrs, created, iter>>

----------------------------------------------------------------------------
(* _accept_dialogs(driver), lines 97-106 *)

\* line 104: if driver.is_element_present(accept_button)
AcceptDialogs_Check ==
    /\ At("_accept_dialogs", "check")
    /\ \E res \in {"present", "absent", "raise"} :
          LET c == Call("is_element_present", Top(stack).drv, SELECTORS.accept_button, 0, NoNav, res)
          IN  CASE res = "present" -> Goto(Issue(c), "click")
                [] res = "absent"  -> Return(Issue(c))
                [] res = "raise"   -> Throw(Issue(c), {})
    /\ UNCHANGED <<env, attrs, sessions, iter>>

\* line 105: driver.cdp.click(accept_button, timeout=CLICK_TIMEOUT)
AcceptDialogs_Click ==
    /\ At("_accept_dialogs", "click")
    /\ \E res \in {"ok", "raise"} :
          LET c == Call("cdp.click", Top(stack).drv, SELECTORS.accept_button, CLICK_TIMEOUT, NoNav, res)
          IN  IF res = "ok" THEN Goto(Issue(c), "sleep") ELSE Throw(Issue(c), {})
    /\ UNCHANGED <<env, attrs, sessions, iter>>

\* line 106: driver.sleep(SLEEP_SHORT)
AcceptDialogs_Sleep ==
    /\ At("_accept_dialogs", "sleep")
    /\ \E res \in {"ok", "raise"} :
          LET c == Call("sleep", Top(stack).drv, "", SLEEP_SHORT, NoNav, res)
          IN  IF res = "ok" THEN Return(Issue(c)) ELSE Throw(Issue(c), {})
    /\ UNCHANGED <<env, attrs, sessions, iter>>

----------------------------------------------------------------------------
(* _wait_for_stream_load(driver), lines 108-118 *)

\* line 115: driver.sleep(SLEEP_MEDIUM)
WaitForStreamLoad_Sleep ==
    /\ At("_wait_for_stream_load", "sleep")
    /\ \E res \in {"ok", "raise"} :
          LET c == Call("sleep", Top(stack).drv, "", SLEEP_MEDIUM, NoNav, res)
          IN  IF res = "ok" THEN Goto(Issue(c), "check") ELSE Throw(Issue(c), {})
    /\ UNCHANGED <<env, attrs, sessions, iter>>

\* the second pause taken whether the control is present or absent
WaitForStreamLoad_Check_AlwaysPauses ==
    /\ At("_wait_for_stream_load", "check")
    /\ \E res \in {"present", "absent", "raise"} :
          LET c == Call("is_element_present", Top(stack).drv, SELECTORS.start_watching, 0, NoNav, res)
          IN  CASE res = "present" -> Goto(Issue(c), "click")
                [] res = "absent"  -> Goto(Issue(c), "sleep2")
                [] res = "raise"   -> Throw(Issue(c), {})
    /\ UNCHANGED <<env, attrs, sessions, iter>>

\* line 116: if driver.is_element_present(start_watching)
WaitForStreamLoad_Check ==
    /\ At("_wait_for_stream_load", "check")
    /\ \E res \in {"present", "absent", "raise"} :
          LET c == Call("is_element_present", Top(stack).drv, SELECTORS.start_watching, 0, NoNav, res)
          IN  CASE res = "present" -> Goto(Issue(c), "click")
                [] res = "absent"  -> Return(Issue(c))
                [] res = "raise"   -> Throw(Issue(c), {})
    /\ UNCHANGED <<env, attrs, sessions, iter>>

\* line 117: driver.cdp.click(start_watching, timeout=CLICK_TIMEOUT)
WaitForStreamLoad_Click ==
    /\ At("_wait_for_stream_load", "click")
    /\ \E res \in {"ok", "raise"} :
          LET c == Call("cdp.click", Top(stack).drv, SELECTORS.start_watching, CLICK_TIMEOUT, NoNav, res)
          IN  IF res = "ok" THEN Goto(Issue(c), "sleep2") ELSE Throw(Issue(c), {})
    /\ UNCHANGED <<env, attrs, sessions, iter>>

\* line 118: driver.sleep(SLEEP_MEDIUM)
WaitForStreamLoad_Sleep2 ==
    /\ At("_wait_for_stream_load", "sleep2")
    /\ \E res \in {"ok", "raise"} :
          LET c == Call("sleep", Top(stack).drv, "", SLEEP_MEDIUM, NoNav, res)
          IN  IF res = "ok" THEN Return(Issue(c)) ELSE Throw(Issue(c), {})
    /\ UNCHANGED <<env, attrs, sessions, iter>>

----------------------------------------------------------------------------
(* _initialize_driver(driver), lines 120-138 *)

\* the coordinates in the wrong order: geoloc=(longitude, latitude)
NavArgsSwapped == <<target_url, geolocation.timezone,
                    <<geolocation.longitude, geolocation.latitude>>>>

\* the arguments of activate_cdp_mode, lines 132-134
NavArgs == <<target_url, geolocation.timezone,
             <<geolocation.latitude, geolocation.longitude>>>>

\* lines 131-135: driver.activate_cdp_mode(target_url, tzone=..., geoloc=...)
InitializeDriver_Activate ==
    /\ At("_initialize_driver", "activate")
    /\ \E res \in {"ok", "raise"} :
          LET c == Call("activate_cdp_mode", Top(stack).drv, "", 0, NavArgs, res)
          IN  IF res = "ok" THEN Goto(Issue(c), "sleep") ELSE Throw(Issue(c), {})
    /\ UNCHANGED <<env, attrs, sessions, iter>>

\* line 136: driver.sleep(SLEEP_SHORT)
InitializeDriver_Sleep ==
    /\ At("_initialize_driver", "sleep")
    /\ \E res \in {"ok", "raise"} :
          LET c == Call("sleep", Top(stack).drv, "", SLEEP_SHORT, NoNav, res)
          IN  IF res = "ok" THEN Goto(Issue(c), "accept") ELSE Throw(Issue(c), {})
    /\ UNCHANGED <<env, attrs, sessions, iter>>

\* line 137: self._accept_dialogs(driver)
InitializeDriver_AcceptDialogs ==
    /\ At("_initialize_driver", "accept")
    /\ Enter("_accept_dialogs", Top(stack).drv, "check", "return")
    /\ UNCHANGED <<env, attrs, sessions, iter>>

\* line 138: return driver
InitializeDriver_Return ==
    /\ At("_initialize_driver", "return")
    /\ Return(stack)
    /\ UNCHANGED <<env, attrs, sessions, iter>>

----------------------------------------------------------------------------
(* _run_secondary_browser(primary_driver), lines 140-157 *)

\* line 148: secondary_driver = primary_driver.get_new_driver(undetectable=True)
Secondary_GetNewDriver ==
    /\ At("_run_secondary_browser", "get_new_driver")
    /\ \E res \in {"ok", "raise"} :
          LET c == Call("get_new_driver", Top(stack).drv, "", 0, NoNav, res)
              new == Secondary(created + 1)
          IN  IF res = "raise"
              THEN /\ Throw(Issue(c), {})
                   /\ UNCHANGED sessions
              ELSE /\ created' = created + 1
                   /\ open' = open \cup {new}
                   /\ stack' = SetTop(stack, [Record(Top(stack), c) EXCEPT
                                                 !.loc = new, !.pc = "initialize"])
                   /\ UNCHANGED <<log, status, completed>>
    /\ UNCHANGED <<env, attrs, iter>>

\* line 149: self._initialize_driver(secondary_driver, undetectable=True)
Secondary_InitializeDriver ==
    /\ At("_run_secondary_browser", "initialize")
    /\ Enter("_initialize_driver", Top(stack).loc, "activate", "wait")
    /\ UNCHANGED <<env, attrs, sessions, iter>>

\* line 150: self._wait_for_stream_load(secondary_driver)
Secondary_WaitForStreamLoad ==
    /\ At("_run_secondary_browser", "wait")
    /\ Enter("_wait_for_stream_load", Top(stack).loc, "sleep", "accept")
    /\ UNCHANGED <<env, attrs, sessions, iter>>

\* line 151: self._accept_dialogs(secondary_driver)
Secondary_AcceptDialogs ==
    /\ At("_run_secondary_browser", "accept")
    /\ Enter("_accept_dialogs", Top(stack).loc, "check", "sleep")
    /\ UNCHANGED <<env, attrs, sessions, iter>>

\* the long sleep issued on the secondary session
Secondary_Sleep_OnSecondary ==
    /\ At("_run_secondary_browser", "sleep")
    /\ \E res \in {"ok", "raise"} :
          LET c == Call("sleep", Top(stack).loc, "", random_sleep_duration, NoNav, res)
          IN  IF res = "ok" THEN Return(Issue(c)) ELSE Throw(Issue(c), {})
    /\ UNCHANGED <<env, attrs, sessions, iter>>

\* the long sleep with a duration drawn anew at every call
Secondary_Sleep_Rerolls ==
    /\ At("_run_secondary_browser", "sleep")
    /\ \E res \in {"ok", "raise"}, d \in {SLEEP_LONG_MIN, SLEEP_LONG_MAX} :
          LET c == Call("sleep", Top(stack).drv, "", d, NoNav, res)
          IN  IF res = "ok" THEN Return(Issue(c)) ELSE Throw(Issue(c), {})
    /\ UNCHANGED <<env, attrs, sessions, iter>>

\* the long sleep followed by a teardown of the secondary session
Secondary_Sleep_ClosesSecondary ==
    /\ At("_run_secondary_browser", "sleep")
    /\ \E res \in {"ok", "raise"} :
          LET c == Call("sleep", Top(stack).drv, "", random_sleep_duration, NoNav, res)
          IN  IF res = "ok"
              THEN /\ Return(Issue(c))
                   /\ open' = open \ {Top(stack).loc}
              ELSE /\ Throw(Issue(c), {})
                   /\ UNCHANGED open
    /\ UNCHANGED <<env, attrs, created, iter>>

\* line 152: primary_driver.sleep(self.random_sleep_duration), the last
\* statement of the try block; the finally block (lines 155-157) does nothing
Secondary_Sleep ==
    /\ At("_run_secondary_browser", "sleep")
    /\ \E res \in {"ok", "raise"} :
          LET c == Call("sleep", Top(stack).drv, "", random_sleep_duration, NoNav, res)
          IN  IF res = "ok" THEN Return(Issue(c)) ELSE Throw(Issue(c), {})
    /\ UNCHANGED <<env, attrs, sessions, iter>>

----------------------------------------------------------------------------
(* _execute_automation_loop(primary_driver), lines 177-200 *)

\* line 186, first statement of an iteration of "while True":
\* self._initialize_driver(primary_driver).  The frame's record of calls
\* starts anew with every iteration.
Loop_InitializeDriver ==
    /\ At("_execute_automation_loop", "initialize")
    /\ iter < MaxIter
    /\ iter' = iter + 1
    /\ LET f == [Top(stack) EXCEPT !.pc = "wait",
                                   !.calls = <<HelperCall("_initialize_driver", Top(stack).drv)>>]
       IN  stack' = Append(SetTop(stack, f),
                           Frame("_initialize_driver", "activate", Top(stack).drv))
    /\ UNCHANGED <<env, attrs, sessions, log, status, completed>>

\* wait-for-stream-load left out of the iteration
Loop_WaitForStreamLoad_Skipped ==
    /\ At("_execute_automation_loop", "wait")
    /\ Goto(stack, "accept")
    /\ UNCHANGED <<env, attrs, sessions, iter>>

\* line 187: self._wait_for_stream_load(primary_driver)
Loop_WaitForStreamLoad ==
    /\ At("_execute_automation_loop", "wait")
    /\ Enter("_wait_for_stream_load", Top(stack).drv, "sleep", "accept")
    /\ UNCHANGED <<env, attrs, sessions, iter>>

\* line 188: self._accept_dialogs(primary_driver)
Loop_AcceptDialogs ==
    /\ At("_execute_automation_loop", "accept")
    /\ Enter("_accept_dialogs", Top(stack).drv, "check", "live_check")
    /\ UNCHANGED <<env, attrs, sessions, iter>>

\* the live-indicator check with its result ignored: the secondary session is
\* started whether the indicator is present or absent
Loop_LiveCheck_IgnoresResult ==
    /\ At("_execute_automation_loop", "live_check")
    /\ \E res \in {"present", "absent", "raise"} :
          LET c == Call("is_element_present", Top(stack).drv, SELECTORS.live_stream, 0, NoNav, res)
          IN  IF res = "raise" THEN Throw(Issue(c), {}) ELSE Goto(Issue(c), "accept_live")
    /\ UNCHANGED <<env, attrs, sessions, iter>>

\* the live-indicator check with the break left out: an absent indicator is
\* logged and the next iteration starts
Loop_LiveCheck_ContinuesOnAbsent ==
    /\ At("_execute_automation_loop", "live_check")
    /\ \E res \in {"present", "absent", "raise"} :
          LET c == Call("is_element_present", Top(stack).drv, SELECTORS.live_stream, 0, NoNav, res)
          IN  CASE res = "present" -> Goto(Issue(c), "accept_live")
                [] res = "absent"  ->
                      /\ log' = log \cup {"Live stream not found, ending automation"}
                      /\ stack' = SetTop(Issue(c), [Top(Issue(c)) EXCEPT !.pc = "initialize"])
                      /\ UNCHANGED <<status, completed>>
                [] res = "raise"   -> Throw(Issue(c), {})
    /\ UNCHANGED <<env, attrs, sessions, iter>>

\* lines 191, 194-196: if primary_driver.is_element_present(live_stream): ...
\* else: logger.info(...); break
Loop_LiveCheck ==
    /\ At("_execute_automation_loop", "live_check")
    /\ \E res \in {"present", "absent", "raise"} :
          LET c == Call("is_element_present", Top(stack).drv, SELECTORS.live_stream, 0, NoNav, res)
          IN  CASE res = "present" -> Goto(Issue(c), "accept_live")
                [] res = "absent"  ->
                      /\ log' = log \cup {"Live stream not found, ending automation"}
                      /\ completed' = <<Completed(Top(Issue(c)), "normal")>>
                      /\ stack' = Pop(Issue(c))
                      /\ UNCHANGED status
                [] res = "raise"   -> Throw(Issue(c), {})
    /\ UNCHANGED <<env, attrs, sessions, iter>>

\* line 192: self._accept_dialogs(primary_driver)
Loop_AcceptDialogsLive ==
    /\ At("_execute_automation_loop", "accept_live")
    /\ Enter("_accept_dialogs", Top(stack).drv, "check", "secondary")
    /\ UNCHANGED <<env, attrs, sessions, iter>>

\* a break in the place of the call of _run_secondary_browser
Loop_RunSecondaryBrowser_Breaks ==
    /\ At("_execute_automation_loop", "secondary")
    /\ Return(stack)
    /\ UNCHANGED <<env, attrs, sessions, iter>>

\* line 193: self._run_secondary_browser(primary_driver); the iteration
\* ends with it and "while True" goes back to line 186
Loop_RunSecondaryBrowser ==
    /\ At("_execute_automation_loop", "secondary")
    /\ Enter("_run_secondary_browser", Top(stack).drv, "get_new_driver", "initialize")
    /\ UNCHANGED <<env, attrs, sessions, iter>>

----------------------------------------------------------------------------
(* The program *)

Next ==
    \/ Main_Construct
    \/ Init_FetchGeolocation
    \/ Init_BuildTargetUrl
    \/ Init_RandomSleepDuration
    \/ Main_Run
    \/ Main_Return
    \/ Run_Enter
    \/ Run_Exit
    \/ AcceptDialogs_Check
    \/ AcceptDialogs_Click
    \/ AcceptDialogs_Sleep
    \/ WaitForStreamLoad_Sleep
    \/ WaitForStreamLoad_Check
    \/ WaitForStreamLoad_Click
    \/ WaitForStreamLoad_Sleep2
    \/ InitializeDriver_Activate
    \/ InitializeDriver_Sleep
    \/ InitializeDriver_AcceptDialogs
    \/ InitializeDriver_Return
    \/ Secondary_GetNewDriver
    \/ Secondary_InitializeDriver
    \/ Secondary_WaitForStreamLoad
    \/ Secondary_AcceptDialogs
    \/ Secondary_Sleep
    \/ Loop_InitializeDriver
    \/ Loop_WaitForStreamLoad
    \/ Loop_AcceptDialogs
    \/ Loop_LiveCheck
    \/ Loop_AcceptDialogsLive
    \/ Loop_RunSecondaryBrowser

Spec == Init /\ [][Next]_vars

\* _fetch_geolocation alone, on a wide set of answers
InitGeo ==
    /\ stack = <<Frame("main", "construct", NoDriver)>>
    /\ response \in WideResponses
    /\ requests_issued = 0
    /\ geolocation = Unset
    /\ target_url = Unset
    /\ random_sleep_duration = 0
    /\ open = {}
    /\ created = 0
    /\ iter = 0
    /\ log = {}
    /\ completed = <<>>
    /\ status = "running"

NextGeo == Main_Construct \/ Init_FetchGeolocation

SpecGeo == InitGeo /\ [][NextGeo]_vars

\* run() alone: main after the construction at line 205 succeeded, the
\* attributes as __init__ left them
InitRun ==
    /\ response \in {OkResponse(ExampleData), OkResponse(OtherData)}
    /\ requests_issued = 1
    /\ geolocation = FetchGeolocation(response).value
    /\ target_url = BuildTargetUrl
    /\ random_sleep_duration \in {SLEEP_LONG_MIN, SLEEP_LONG_MAX}
    /\ stack = <<Record(Frame("main", "run", NoDriver),
                        Call("__init__", NoDriver, "", 0, NoNav, "ok"))>>
    /\ completed =
          <<Completed([Frame("__init__", "randint", NoDriver) EXCEPT !.calls =
                <<Call("_fetch_geolocation", NoDriver, "", 0, NoNav, "ok"),
                  Call("_build_target_url", NoDriver, "", 0, NoNav, "ok"),
                  Call("random.randint", NoDriver, "", random_sleep_duration, NoNav, "ok")>>],
              "normal")>>
    /\ open = {}
    /\ created = 0
    /\ iter = 0
    /\ log = {}
    /\ status = "running"

NextRun ==
    \/ Main_Run
    \/ Main_Return
    \/ Run_Enter
    \/ Run_Exit
    \/ AcceptDialogs_Check
    \/ AcceptDialogs_Click
    \/ AcceptDialogs_Sleep
    \/ WaitForStreamLoad_Sleep
    \/ WaitForStreamLoad_Check
    \/ WaitForStreamLoad_Click
    \/ WaitForStreamLoad_Sleep2
    \/ InitializeDriver_Activate
    \/ InitializeDriver_Sleep
    \/ InitializeDriver_AcceptDialogs
    \/ InitializeDriver_Return
    \/ Secondary_GetNewDriver
    \/ Secondary_InitializeDriver
    \/ Secondary_WaitForStreamLoad
    \/ Secondary_AcceptDialogs
    \/ Secondary_Sleep
    \/ Loop_InitializeDriver
    \/ Loop_WaitForStreamLoad
    \/ Loop_AcceptDialogs
    \/ Loop_LiveCheck
    \/ Loop_AcceptDialogsLive
    \/ Loop_RunSecondaryBrowser

\* every call returns, with a value or with an Exception: the statement that
\* is next is executed
SpecRun == InitRun /\ [][NextRun]_vars /\ WF_vars(NextRun)

----------------------------------------------------------------------------
(* Vocabulary of the properties *)

LOOP == "_execute_automation_loop"

SECONDARY == "_run_secondary_browser"

\* the calls of a sequence of calls
CallsOf(calls) == {calls[j] : j \in 1..Len(calls)}

LastCall(r) == r.calls[Len(r.calls)]

IsLiveCheck(c) == c.op = "is_element_present" /\ c.sel = SELECTORS.live_stream

LivePresent(c) == IsLiveCheck(c) /\ c.res = "present"

LiveAbsent(c) == IsLiveCheck(c) /\ c.res = "absent"

IsGetNewDriver(c) == c.op = "get_new_driver"

IsSecondaryCall(c) == c.op = SECONDARY

IsSleep(c) == c.op = "sleep"

OnStack(fn) == \E i \in 1..Len(stack) : stack[i].fn = fn

\* the invocations of fn the last step ended
Ended(fn) == {k \in 1..Len(completed) : completed[k].fn = fn}

----------------------------------------------------------------------------
\* C1: a live-indicator check that returns absent ends the loop in that very
\* iteration and no secondary session is made in it; get_new_driver is called
\* only by _run_secondary_browser, called from an iteration of the loop whose
\* live-indicator check returned present.
C1_SecondaryOnlyWhenLive ==
    /\ \A i \in 1..Len(stack) :
          /\ stack[i].fn = SECONDARY =>
                /\ i > 1
                /\ stack[i - 1].fn = LOOP
                /\ (\E c \in CallsOf(stack[i - 1].calls) : LivePresent(c))
          /\ stack[i].fn = LOOP => ~(\E c \in CallsOf(stack[i].calls) : LiveAbsent(c))
          /\ (\E c \in CallsOf(stack[i].calls) : IsGetNewDriver(c)) => stack[i].fn = SECONDARY
    /\ \A k \in 1..Len(completed) :
          /\ (\E c \in CallsOf(completed[k].calls) : IsGetNewDriver(c)) => completed[k].fn = SECONDARY
          /\ (completed[k].fn = LOOP /\ (\E c \in CallsOf(completed[k].calls) : LiveAbsent(c))) =>
                /\ completed[k].outcome = "normal"
                /\ LiveAbsent(LastCall(completed[k]))
                /\ ~(\E c \in CallsOf(completed[k].calls) : IsSecondaryCall(c))
                /\ ~OnStack(LOOP)
                /\ ~OnStack(SECONDARY)

\* C1 witness: the second iteration ends on an absent live indicator, after
\* the first one made a secondary session: still one secondary session.
C1_Witness ==
    /\ iter = 2
    /\ created = 1
    /\ Ended(LOOP) # {}
    /\ LiveAbsent(LastCall(completed[1]))
    /\ ~OnStack(LOOP)

----------------------------------------------------------------------------
\* the secondary handler caught an Exception of a setup step (get_new_driver,
\* initialize, wait-for-stream-load or accept-dialogs), not of the sleep
SetupFailed(r) ==
    /\ r.fn = SECONDARY
    /\ r.outcome = "caught"
    /\ \E j \in 1..Len(r.calls) :
          /\ r.calls[j].res = "raise"
          /\ r.calls[j].op \in {"get_new_driver", "_initialize_driver",
                                "_wait_for_stream_load", "_accept_dialogs"}

LongSleep(c) ==
    IsSleep(c) /\ c.drv = Primary /\ c.secs = random_sleep_duration /\ c.res = "ok"

\* C2 as stated: when a setup step of the secondary session raises, the error
\* is swallowed and the primary session's sleep for random_sleep_duration
\* still executes in that iteration.
C2_SleepStillExecutes ==
    \A k \in 1..Len(completed) :
        SetupFailed(completed[k]) =>
            /\ k = Len(completed)
            /\ status = "running"
            /\ (\E c \in CallsOf(completed[k].calls) : LongSleep(c))

\* C2 amended: when a setup step of the secondary session raises, the error
\* is logged and swallowed (it leaves no frame but those above the handler,
\* the loop stays on the stack and goes on at its first statement), and the
\* primary session's sleep is skipped: _run_secondary_browser issues no sleep
\* on the primary session in that iteration.
C2_SleepSkipped ==
    \A k \in 1..Len(completed) :
        SetupFailed(completed[k]) =>
            /\ k = Len(completed)
            /\ status = "running"
            /\ "Secondary browser error" \in log
            /\ OnStack(LOOP)
            /\ ~(\E c \in CallsOf(completed[k].calls) : IsSleep(c))

\* C2 witness: wait-for-stream-load on the secondary session raised and the
\* loop stands at the first statement of its next iteration.
C2_Witness ==
    /\ completed # <<>>
    /\ SetupFailed(completed[Len(completed)])
    /\ LastCall(completed[Len(completed)]).op = "_wait_for_stream_load"
    /\ At(LOOP, "initialize")

----------------------------------------------------------------------------
\* the geolocation request fails: network error, HTTP error status, or a
\* field missing from the JSON object
GeoFails ==
    \/ response.kind = "network_error"
    \/ response.kind = "http" /\ response.code # 200
    \/ \E k \in GeoFields : k \notin DOMAIN response.data

\* C3: when the geolocation request fails, construction raises, exactly one
\* request was issued and no browser session is ever created.
C3_GeoFailureIsFatal ==
    GeoFails =>
        /\ requests_issued <= 1
        /\ open = {}
        /\ created = 0
        /\ iter = 0
        /\ ~OnStack("run")
        /\ status # "returned"
        /\ requests_issued = 1 =>
              /\ status = "raised"
              /\ stack = <<>>
              /\ geolocation = Unset
              /\ completed[Len(completed)].fn = "main"
              /\ completed[Len(completed)].outcome = "raised"

\* C3 witness: the answer lacks the timezone field and the process has ended
\* raised after its one request.
C3_Witness ==
    /\ response = OkResponse(Without(ExampleData, "timezone"))
    /\ requests_issued = 1
    /\ status = "raised"

----------------------------------------------------------------------------
\* the sleeps _run_secondary_browser has issued itself use random_sleep_duration
\* on the primary session
SleepsAsChosen(fn, calls) ==
    fn = SECONDARY =>
        \A j \in 1..Len(calls) :
            IsSleep(calls[j]) =>
                /\ calls[j].secs = random_sleep_duration
                /\ calls[j].drv = Primary

\* C4, in every state: once __init__ has chosen it, random_sleep_duration is
\* between SLEEP_LONG_MIN and SLEEP_LONG_MAX, and every long sleep was issued
\* with it
C4_Bounded ==
    /\ (random_sleep_duration # 0 \/ OnStack("run") \/ iter > 0) =>
          /\ SLEEP_LONG_MIN <= random_sleep_duration
          /\ random_sleep_duration <= SLEEP_LONG_MAX
          /\ 450 <= random_sleep_duration
          /\ random_sleep_duration <= 800
    /\ \A i \in 1..Len(stack) : SleepsAsChosen(stack[i].fn, stack[i].calls)
    /\ \A k \in 1..Len(completed) : SleepsAsChosen(completed[k].fn, completed[k].calls)

\* C4, in every step: once chosen, random_sleep_duration never changes
C4_NeverRerolled ==
    random_sleep_duration # 0 => random_sleep_duration' = random_sleep_duration

\* C4: random_sleep_duration is chosen once at construction, lies in 450..800
\* and every long sleep of the primary session, in every iteration, uses it.
C4_SleepDurationChosenOnce == []C4_Bounded /\ [][C4_NeverRerolled]_vars

\* C4 witness: the second iteration has completed its long sleep on the
\* primary session, with the largest duration.
C4_Witness ==
    /\ iter = 2
    /\ created = 2
    /\ random_sleep_duration = SLEEP_LONG_MAX
    /\ Ended(SECONDARY) # {}
    /\ completed[1].outcome = "normal"
    /\ LongSleep(LastCall(completed[1]))

----------------------------------------------------------------------------
\* C5: the loop ends only on an absent live indicator or on an Exception of
\* a step of its body that the secondary handler did not handle; when the
\* live indicator is present and no such Exception occurs, the loop goes on
\* with another iteration.
C5_LoopExits ==
    /\ \A k \in Ended(LOOP) :
          \/ /\ completed[k].outcome = "normal"
             /\ LiveAbsent(LastCall(completed[k]))
          \/ /\ completed[k].outcome = "caught"
             /\ LastCall(completed[k]).res = "raise"
             /\ ~IsSecondaryCall(LastCall(completed[k]))
    /\ (iter > 0 /\ ~OnStack(LOOP)) =>
          \/ "Live stream not found, ending automation" \in log
          \/ "Error in automation loop" \in log
    /\ \A k \in Ended(SECONDARY) :
          /\ completed[k].outcome \in {"normal", "caught"}
          /\ OnStack(LOOP)
          /\ (\E c \in CallsOf(stack[3].calls) : LivePresent(c)) \/ Len(stack) > 3
          /\ Len(stack) = 3 => stack[3].pc = "initialize"
    /\ (At(LOOP, "initialize") /\ iter > 0) =>
          /\ (\E c \in CallsOf(Top(stack).calls) : LivePresent(c))
          /\ Ended(SECONDARY) # {}

\* C5 witness: the live indicator was present, the secondary session ran to
\* its end and the loop stands at the first statement of a second iteration.
C5_Witness ==
    /\ At(LOOP, "initialize")
    /\ iter = 1
    /\ Ended(SECONDARY) # {}
    /\ completed[1].outcome = "normal"

----------------------------------------------------------------------------
\* C6: an Exception raised anywhere inside _run_secondary_browser is caught
\* there and never reaches the handler of the loop; the loop does not end
\* but starts its next iteration by initializing the primary session again.
C6_SecondarySwallows ==
    /\ \A k \in Ended(SECONDARY) : completed[k].outcome # "raised"
    /\ \A k \in Ended(LOOP) :
          completed[k].outcome = "caught" => ~IsSecondaryCall(LastCall(completed[k]))
    /\ \A k \in Ended(SECONDARY) :
          completed[k].outcome = "caught" =>
              /\ k = Len(completed)
              /\ status = "running"
              /\ "Secondary browser error" \in log
              /\ Len(stack) >= 3
              /\ stack[3].fn = LOOP
              /\ Len(stack) = 3 => stack[3].pc = "initialize"
              /\ Len(stack) > 3 =>
                    /\ stack[3].calls = <<HelperCall("_initialize_driver", Primary)>>
                    /\ stack[4].fn = "_initialize_driver"
                    /\ stack[4].drv = Primary

\* C6 witness: the long sleep itself raised in the first iteration, and the
\* second iteration is initializing the primary session.
C6_Witness ==
    /\ Ended(SECONDARY) # {}
    /\ completed[1].outcome = "caught"
    /\ LastCall(completed[1]).op = "sleep"
    /\ iter = 2
    /\ Len(stack) > 3
    /\ Top(stack).fn = "_accept_dialogs"

----------------------------------------------------------------------------
\* C7 as stated: at most two browser sessions are open at any time, for any
\* number of iterations.
C7_AtMostTwoSessions == Cardinality(open) <= 2

----------------------------------------------------------------------------
\* "https://www.twitch.tv/brutalles": the template and the channel name
ExpectedUrl == <<"https://www.twitch.tv/", <<98, 114, 117, 116, 97, 108, 108, 101, 115>>>>

\* the navigations among calls carry the URL and the place of the answer
NavigatesAsFetched(calls) ==
    \A j \in 1..Len(calls) :
        calls[j].op = "activate_cdp_mode" =>
            calls[j].nav = <<ExpectedUrl, response.data.timezone,
                             <<response.data.lat, response.data.lon>>>>

\* C8: the geolocation record and the target URL are computed once and stay
\* what construction made of the one answer; every navigation, on the primary
\* or on any secondary session, in every iteration, is issued with the same
\* URL, timezone and (latitude, longitude) pair.
C8_NavigationArgumentsFixed ==
    /\ target_url # Unset => target_url = ExpectedUrl
    /\ geolocation # Unset =>
          /\ geolocation.timezone = response.data.timezone
          /\ geolocation.latitude = response.data.lat
          /\ geolocation.longitude = response.data.lon
    /\ OnStack("run") => (target_url # Unset /\ geolocation # Unset)
    /\ \A i \in 1..Len(stack) : NavigatesAsFetched(stack[i].calls)
    /\ \A k \in 1..Len(completed) : NavigatesAsFetched(completed[k].calls)

\* C8 witness: the second secondary session has been navigated, after the
\* primary session was navigated twice, with the place of the other answer.
C8_Witness ==
    /\ response = OkResponse(OtherData)
    /\ iter = 2
    /\ At("_initialize_driver", "sleep")
    /\ Top(stack).drv = Secondary(2)
    /\ LastCall(Top(stack)).op = "activate_cdp_mode"
    /\ LastCall(Top(stack)).nav[3] = <<-33, 151>>

----------------------------------------------------------------------------
\* the answer is a success with all four fields
GeoSucceeds ==
    /\ response.kind = "http"
    /\ response.code = 200
    /\ GeoFields \subseteq DOMAIN response.data

\* text t is text s in lower case
IsLowerOf(t, s) ==
    /\ Len(t) = Len(s)
    /\ \A i \in 1..Len(s) :
          /\ t[i] \notin 65..90
          /\ s[i] \in 65..90 => t[i] - s[i] = 97 - 65
          /\ s[i] \notin 65..90 => t[i] = s[i]

\* C9: for a successful answer with lat, lon, timezone and countryCode,
\* _fetch_geolocation returns a record with latitude, longitude and timezone
\* as in the answer and country_code the countryCode in lower case.
C9_RecordAsAnswered ==
    (GeoSucceeds /\ requests_issued > 0) =>
        /\ geolocation # Unset
        /\ status = "running"
        /\ geolocation.latitude = response.data.lat
        /\ geolocation.longitude = response.data.lon
        /\ geolocation.timezone = response.data.timezone
        /\ IsLowerOf(geolocation.country_code, response.data.countryCode)

\* C9 witness: the example of the specification: "US" became "us"
C9_Witness ==
    /\ response = OkResponse(GeoData(10, 20, "UTC", <<85, 83>>))
    /\ requests_issued = 1
    /\ geolocation = GeoLocation(10, 20, "UTC", <<117, 115>>)

----------------------------------------------------------------------------
IsAbsentCheck(c) == c.op = "is_element_present" /\ c.res = "absent"

\* an invocation of a helper that found its control absent issued nothing
\* after the check and returned normally
AbsentIsNoOp(r) ==
    /\ (r.fn = "_accept_dialogs" /\ (\E c \in CallsOf(r.calls) : IsAbsentCheck(c))) =>
          /\ r.outcome = "normal"
          /\ r.calls = <<Call("is_element_present", r.drv, SELECTORS.accept_button,
                              0, NoNav, "absent")>>
    /\ (r.fn = "_wait_for_stream_load" /\ (\E c \in CallsOf(r.calls) : IsAbsentCheck(c))) =>
          /\ r.outcome = "normal"
          /\ r.calls = <<Call("sleep", r.drv, "", SLEEP_MEDIUM, NoNav, "ok"),
                         Call("is_element_present", r.drv, SELECTORS.start_watching,
                              0, NoNav, "absent")>>

\* C10: absence of the control is a no-op and no error: _accept_dialogs with
\* the accept control absent issues no click and no sleep and does not raise;
\* _wait_for_stream_load with the start-watching control absent issues its
\* one fixed pause, no click and no second pause, and does not raise.  A
\* helper that has seen its control absent has returned in that step: no
\* frame of it is left on the stack.
C10_AbsentControlIsNoOp ==
    /\ \A k \in 1..Len(completed) : AbsentIsNoOp(completed[k])
    /\ \A i \in 1..Len(stack) :
          stack[i].fn \in {"_accept_dialogs", "_wait_for_stream_load"} =>
              ~(\E c \in CallsOf(stack[i].calls) : IsAbsentCheck(c))

\* C10 witness: _wait_for_stream_load has returned from a secondary session
\* whose start-watching control was absent.
C10_Witness ==
    /\ Ended("_wait_for_stream_load") # {}
    /\ completed[1].drv = Secondary(1)
    /\ (\E c \in CallsOf(completed[1].calls) : IsAbsentCheck(c))
    /\ At(SECONDARY, "accept")

----------------------------------------------------------------------------
\* calls is the beginning of the sequence of (operation, session) pairs order
\* and every call but the last has returned
Follows(calls, order) ==
    /\ Len(calls) <= Len(order)
    /\ \A j \in 1..Len(calls) :
          /\ calls[j].op = order[j][1]
          /\ calls[j].drv = order[j][2]
          /\ j < Len(calls) => calls[j].res \in {"ok", "present"}

\* the steps of _run_secondary_browser on primary session p and secondary
\* session s, in the order of the claim
SecondaryOrder(p, s) ==
    <<<<"get_new_driver", p>>, <<"_initialize_driver", s>>,
      <<"_wait_for_stream_load", s>>, <<"_accept_dialogs", s>>, <<"sleep", p>>>>

\* the steps of _initialize_driver on session d
InitializeOrder(d) ==
    <<<<"activate_cdp_mode", d>>, <<"sleep", d>>, <<"_accept_dialogs", d>>>>

\* C11: an iteration that spawns a secondary session without an exception
\* creates the secondary session from the primary, initializes it (navigate,
\* short pause, accept dialogs), waits for the stream on it, accepts dialogs
\* on it and only then issues the long sleep, on the primary session; the
\* next iteration starts only after _run_secondary_browser has returned.
C11_SecondaryOrder ==
    /\ \A i \in 1..Len(stack) :
          /\ stack[i].fn = SECONDARY =>
                /\ stack[i].drv = Primary
                /\ Follows(stack[i].calls, SecondaryOrder(Primary, stack[i].loc))
                /\ Len(stack[i].calls) > 1 => stack[i].loc = Secondary(created)
                /\ stack[i - 1].pc = "initialize"
                /\ LastCall(stack[i - 1]).op = SECONDARY
                /\ \A j \in 1..Len(stack) :
                      (stack[j].fn \in {"_initialize_driver", "_wait_for_stream_load",
                                        "_accept_dialogs"}) => stack[j].drv = stack[i].loc
          /\ stack[i].fn = "_initialize_driver" =>
                /\ Follows(stack[i].calls, InitializeOrder(stack[i].drv))
                /\ Len(stack[i].calls) > 1 => stack[i].calls[2].secs = SLEEP_SHORT
    /\ \A k \in Ended(SECONDARY) :
          completed[k].outcome = "normal" =>
              /\ Len(completed[k].calls) = 5
              /\ Follows(completed[k].calls, SecondaryOrder(Primary, completed[k].loc))
              /\ completed[k].loc = Secondary(created)
              /\ LongSleep(completed[k].calls[5])
    /\ \A k \in Ended("_initialize_driver") :
          completed[k].outcome = "normal" =>
              /\ Len(completed[k].calls) = 3
              /\ Follows(completed[k].calls, InitializeOrder(completed[k].drv))
              /\ completed[k].calls[3].res = "ok"
    /\ (At(LOOP, "initialize") /\ iter > 0) =>
          /\ Ended(SECONDARY) # {}
          /\ completed[Len(completed)].outcome = "normal" =>
                LongSleep(LastCall(completed[Len(completed)]))

\* C11 witness: the second iteration has spawned its secondary session and
\* run through all five steps; the loop stands before a third iteration.
C11_Witness ==
    /\ At(LOOP, "initialize")
    /\ iter = 2
    /\ Ended(SECONDARY) # {}
    /\ completed[1].outcome = "normal"
    /\ completed[1].loc = Secondary(2)
    /\ Len(completed[1].calls) = 5

----------------------------------------------------------------------------
\* the steps of one iteration of the loop on primary session p
LoopOrder(p) ==
    <<<<"_initialize_driver", p>>, <<"_wait_for_stream_load", p>>,
      <<"_accept_dialogs", p>>, <<"is_element_present", p>>,
      <<"_accept_dialogs", p>>, <<SECONDARY, p>>>>

\* the steps of _wait_for_stream_load on session d, the control present
WaitOrder(d) ==
    <<<<"sleep", d>>, <<"is_element_present", d>>, <<"cdp.click", d>>, <<"sleep", d>>>>

\* the calls of a _wait_for_stream_load: the fixed pause, the check of the
\* start-watching control and, only after a present control, click and pause
WaitCallsInOrder(calls, d) ==
    /\ Follows(calls, WaitOrder(d))
    /\ Len(calls) >= 1 => calls[1].secs = SLEEP_MEDIUM
    /\ Len(calls) >= 2 => calls[2].sel = SELECTORS.start_watching
    /\ Len(calls) >= 3 =>
          /\ calls[2].res = "present"
          /\ calls[3].sel = SELECTORS.start_watching
    /\ Len(calls) >= 4 => calls[4].secs = SLEEP_MEDIUM

\* the navigation of an _initialize_driver: target URL, timezone, coordinates
NavigatesSpoofed(calls) ==
    Len(calls) >= 1 =>
        calls[1].nav = <<target_url, geolocation.timezone,
                         <<geolocation.latitude, geolocation.longitude>>>>

\* C12: every iteration, also one that follows a secondary spawn, performs
\* on the primary session, in this order: navigate with spoofed timezone and
\* coordinates, short pause, accept-dialogs, wait-for-stream-load (fixed
\* pause, then click and second pause only if the control is present),
\* accept-dialogs and then the live-indicator check; no live-indicator check
\* is issued without all of them having returned in the same iteration.
C12_PrimaryOrder ==
    /\ \A i \in 1..Len(stack) :
          /\ stack[i].fn = LOOP =>
                /\ stack[i].drv = Primary
                /\ Follows(stack[i].calls, LoopOrder(Primary))
                /\ Len(stack[i].calls) >= 4 => IsLiveCheck(stack[i].calls[4])
                /\ (i = Len(stack) /\ stack[i].pc = "live_check") =>
                      /\ Len(stack[i].calls) = 3
                      /\ stack[i].calls[3].res = "ok"
          /\ (stack[i].fn = "_initialize_driver" /\ stack[i].drv = Primary) =>
                /\ Follows(stack[i].calls, InitializeOrder(Primary))
                /\ NavigatesSpoofed(stack[i].calls)
                /\ Len(stack[i].calls) > 1 => stack[i].calls[2].secs = SLEEP_SHORT
          /\ stack[i].fn = "_wait_for_stream_load" =>
                WaitCallsInOrder(stack[i].calls, stack[i].drv)
    /\ \A k \in Ended(LOOP) :
          /\ Follows(completed[k].calls, LoopOrder(Primary))
          /\ \A j \in 1..Len(completed[k].calls) :
                IsLiveCheck(completed[k].calls[j]) <=> j = 4
    /\ \A k \in Ended("_initialize_driver") :
          (completed[k].drv = Primary /\ completed[k].outcome = "normal") =>
              /\ Len(completed[k].calls) = 3
              /\ Follows(completed[k].calls, InitializeOrder(Primary))
              /\ NavigatesSpoofed(completed[k].calls)
              /\ completed[k].calls[2].secs = SLEEP_SHORT
    /\ \A k \in Ended("_wait_for_stream_load") :
          completed[k].outcome = "normal" =>
              /\ WaitCallsInOrder(completed[k].calls, completed[k].drv)
              /\ Len(completed[k].calls) \in {2, 4}
              /\ Len(completed[k].calls) = 2 => completed[k].calls[2].res = "absent"

\* C12 witness: the iteration that follows a secondary spawn has gone through
\* the whole sequence and stands at its live-indicator check.
C12_Witness ==
    /\ At(LOOP, "live_check")
    /\ iter = 2
    /\ created = 1
    /\ Len(Top(stack).calls) = 3

----------------------------------------------------------------------------
\* the secondary sessions that are open
SecondariesOpen == open \ {Primary}

\* the step is a get_new_driver call that returned a session
GetNewDriverSucceeds ==
    /\ At(SECONDARY, "get_new_driver")
    /\ Len(stack') = Len(stack)
    /\ Top(stack').pc = "initialize"

\* while the primary session is open, every secondary session ever created
\* is open, and the one an invocation of _run_secondary_browser obtained is
\* the latest created
AllSecondariesOpen ==
    /\ Primary \in open => SecondariesOpen = {Secondary(n) : n \in 1..created}
    /\ \A i \in 1..Len(stack) :
          (stack[i].fn = SECONDARY /\ stack[i].pc # "get_new_driver") =>
              /\ stack[i].loc = Secondary(created)
              /\ stack[i].loc \in open
    /\ \A k \in Ended(SECONDARY) :
          (Primary \in open /\ completed[k].calls[1].res = "ok") =>
              /\ completed[k].loc = Secondary(created)
              /\ completed[k].loc \in open

\* a step of the script closes no secondary session, and the open secondary
\* sessions grow by exactly one in a successful get_new_driver and in no other
\* step; the step that leaves the with block is the library's teardown
NoTeardownStep ==
    At("run", "exit") \/
        /\ SecondariesOpen \subseteq SecondariesOpen'
        /\ IF GetNewDriverSucceeds
           THEN /\ Cardinality(SecondariesOpen') = Cardinality(SecondariesOpen) + 1
                /\ created' = created + 1
           ELSE /\ SecondariesOpen' = SecondariesOpen
                /\ created' = created

\* C13: the script issues no teardown of a secondary session on any path:
\* the number of secondary sessions created and not closed by the script
\* never decreases, and it grows by exactly one in every iteration in which
\* get_new_driver succeeds.
C13_SecondariesNeverClosed == []AllSecondariesOpen /\ [][NoTeardownStep]_vars

\* C13 witness: two iterations obtained a secondary session, the second
\* failed afterwards and was swallowed, and both sessions are still open.
C13_Witness ==
    /\ At(LOOP, "initialize")
    /\ iter = 2
    /\ \E k \in Ended(SECONDARY) :
          /\ completed[k].outcome = "caught"
          /\ completed[k].calls[1].res = "ok"
    /\ open = {Primary, Secondary(1), Secondary(2)}

----------------------------------------------------------------------------
\* the steps of the loop body on the primary session
PrimarySteps ==
    {"_initialize_driver", "_wait_for_stream_load", "_accept_dialogs",
     "is_element_present"}

\* c is a step of the loop body on the primary session that raised
PrimaryStepRaised(c) ==
    /\ c.op \in PrimarySteps
    /\ c.drv = Primary
    /\ c.res = "raise"

LoopErrorLogged == "Error in automation loop" \in log

\* C14: if a primary-session step of the loop body (initialize,
\* wait-for-stream-load, accept-dialogs or the live-indicator check) raises,
\* the loop ends in that iteration, no secondary session is created in it, no
\* further driver operation is issued afterwards, and run() returns normally
\* without re-raising that exception; only an exception raised while opening
\* or closing the primary session is re-raised by run().
C14_LoopErrorEndsRun ==
    \* the loop does not go on after a step of its body raised
    /\ \A i \in 1..Len(stack) :
          stack[i].fn = LOOP =>
              /\ ~LoopErrorLogged
              /\ \A c \in CallsOf(stack[i].calls) : c.res # "raise"
    \* the loop ends caught exactly when its last step raised, with no
    \* secondary session asked for in that iteration
    /\ \A k \in Ended(LOOP) :
          /\ completed[k].outcome \in {"normal", "caught"}
          /\ completed[k].outcome = "caught" <=> PrimaryStepRaised(LastCall(completed[k]))
          /\ completed[k].outcome = "caught" =>
                /\ LoopErrorLogged
                /\ created < iter
                /\ \A c \in CallsOf(completed[k].calls) :
                      c.op # SECONDARY /\ ~IsGetNewDriver(c)
                /\ stack # <<>>
                /\ Top(stack).fn = "run"
                /\ Top(stack).pc = "exit"
                /\ LastCall(Top(stack)).op = LOOP
                /\ LastCall(Top(stack)).res = "ok"
    \* after the error only the with block is left and main returns
    /\ LoopErrorLogged =>
          /\ created < iter
          /\ Len(stack) <= 2
          /\ \A i \in 1..Len(stack) :
                /\ stack[i].fn \in {"main", "run"}
                /\ stack[i].fn = "run" =>
                      /\ stack[i].pc = "exit"
                      /\ Len(stack[i].calls) = 2
    \* run raises again only what opening or closing the session raised
    /\ \A k \in Ended("run") :
          /\ \A c \in CallsOf(completed[k].calls) : c.op = LOOP => c.res = "ok"
          /\ completed[k].outcome \in {"normal", "raised"}
          /\ completed[k].outcome = "raised" <=>
                /\ LastCall(completed[k]).op \in {"SB.__enter__", "SB.__exit__"}
                /\ LastCall(completed[k]).res = "raise"
          /\ completed[k].outcome = "raised" => "Automation failed" \in log
          /\ completed[k].outcome = "normal" => "Automation failed" \notin log
    /\ "Automation failed" \in log => status = "raised"

\* C14 witness: a step of the loop body raised on the primary session, the
\* loop ended, the with block was left and run returned normally to main.
C14_Witness ==
    /\ At("main", "return")
    /\ LoopErrorLogged
    /\ \E k \in Ended("run") :
          /\ completed[k].outcome = "normal"
          /\ Len(completed[k].calls) = 3
          /\ completed[k].calls[3].res = "ok"
    /\ open = {}

----------------------------------------------------------------------------
\* a live-indicator check returned absent
AbsentSeen == "Live stream not found, ending automation" \in log

\* the process has ended, run() with it
Terminated == status \in {"returned", "raised"}

\* opening the primary session raised
OpeningRaised ==
    \E k \in Ended("run") :
        /\ LastCall(completed[k]).op = "SB.__enter__"
        /\ LastCall(completed[k]).res = "raise"

\* the loop is left only by an absent live indicator or by a step on the
\* primary session that raised, and run() ends only after one of them
EndsForACause ==
    /\ \A k \in Ended(LOOP) :
          \/ completed[k].outcome = "normal" /\ LiveAbsent(LastCall(completed[k])) /\ AbsentSeen
          \/ completed[k].outcome = "caught" /\ PrimaryStepRaised(LastCall(completed[k]))
    /\ AbsentSeen => ~OnStack(LOOP)
    /\ (Ended("run") # {} \/ Terminated \/ At("run", "exit")) =>
          AbsentSeen \/ LoopErrorLogged \/ OpeningRaised
    /\ (At(LOOP, "initialize") /\ iter < MaxIter) => ENABLED Loop_InitializeDriver

\* C15: every driver call returning, with a value or an exception, run()
\* eventually terminates whenever the live indicator is absent at some
\* live-indicator check, and it never terminates on a run in which every
\* live-indicator check returns present and no primary-session step raises:
\* such a run goes on to the next iteration for as long as there is one.
C15_TerminatesWhenAbsent ==
    /\ AbsentSeen ~> Terminated
    /\ []EndsForACause
    /\ <>(Terminated \/ iter = MaxIter)

\* C15 witness: the live indicator was present in one iteration and absent
\* in the next, and run() and main have returned.
C15_Witness ==
    /\ AbsentSeen
    /\ status = "returned"
    /\ iter = 2
    /\ created = 1
    /\ ~LoopErrorLogged

====
